---- MODULE Spec2Model ----
(***************************************************************************)
(* Bit-true binary16 adder and multiplier reference models                 *)
(* (Reference/Using_CPP/fp16_adder_ref.cpp, fp16_mul_ref.cpp) together     *)
(* with the binary16 <-> binary32 codec and the verification harness that  *)
(* compares the multiplier with the native binary32 product.               *)
(*                                                                         *)
(* A binary16 pattern is a number in 0..65535.  A binary32 value is the    *)
(* record of its three bit fields [sign, exp, mant] (1, 8 and 23 bits).    *)
(* All intermediate integers of the kernels fit in 32 bits, as in the      *)
(* source (uint32_t / int32_t), so no wrap-around is reachable.            *)
(***************************************************************************)
EXTENDS Integers, Naturals, Sequences, FiniteSets, TLC

(***************************************************************************)
(* Bounds of the operand set.                                              *)
(***************************************************************************)
FracSpan == 1

ExpSpan == 4

\* Fractions at both ends of the 10-bit range, and the middle one.
Fracs == (0..FracSpan) \cup ((1023 - FracSpan)..1023) \cup {512}

\* Exponent fields near 0, near the bias and near 31.
Exps == {e \in 0..31 : \/ e <= ExpSpan + 1
                       \/ (e >= 15 - ExpSpan /\ e <= 15 + ExpSpan)
                       \/ e >= 30 - ExpSpan}

\* The operand patterns: every class (zero, subnormal, normal, infinity,
\* NaN) in both signs, including 0x7FFF and 0xFFFF.
Operands == {s * 32768 + e * 1024 + f : s \in 0..1, e \in Exps, f \in Fracs}

(***************************************************************************)
(* Bit helpers (shifts and masks of the source, on naturals).              *)
(***************************************************************************)
RECURSIVE Pow2(_)
Pow2(n) == IF n <= 0 THEN 1 ELSE 2 * Pow2(n - 1)

Shr(x, n) == x \div Pow2(n)

Shl(x, n) == x * Pow2(n)

SignOf(h) == (h \div 32768) % 2

ExpOf(h) == (h \div 1024) % 32

FracOf(h) == h % 1024

IsInf(h) == ExpOf(h) = 31 /\ FracOf(h) = 0

IsNaN(h) == ExpOf(h) = 31 /\ FracOf(h) # 0

IsZero(h) == ExpOf(h) = 0 /\ FracOf(h) = 0

(***************************************************************************)
(* fp16_add_model: the adder kernel.                                       *)
(***************************************************************************)
\* while (final_mant < 1024 && final_exp > 1) { final_mant <<= 1; final_exp--; }
RECURSIVE RenormLoop(_, _)
RenormLoop(final_mant, final_exp) ==
    IF final_mant < 1024 /\ final_exp > 1
    THEN RenormLoop(final_mant * 2, final_exp - 1)
    ELSE [mant |-> final_mant, exp |-> final_exp]

\* Step 4: the small mantissa shifted right, and the bits shifted out.
AlignSmall(mant_sml, exp_diff) ==
    IF exp_diff >= 11 + 2
    THEN [shifted |-> 0, bits_lost |-> IF mant_sml # 0 THEN 1 ELSE 0]
    ELSE [shifted |-> Shr(mant_sml, exp_diff),
          bits_lost |-> mant_sml % Pow2(exp_diff)]

\* Step 5: add or subtract the aligned mantissas.
AddSub(sign_big, sign_sml, mant_big, mant_sml_shifted) ==
    IF sign_big = sign_sml
    THEN mant_big + mant_sml_shifted
    ELSE mant_big - mant_sml_shifted

\* Faulty variant: the carry shift rounds the dropped bit up.
Renormalize_Mut(final_mant, final_exp, bits_lost) ==
    IF final_mant >= 2048
    THEN [mant |-> (final_mant + 1) \div 2, exp |-> final_exp + 1,
          bits_lost |-> IF final_mant % 2 = 1 THEN 1 ELSE bits_lost]
    ELSE LET r == RenormLoop(final_mant, final_exp)
         IN  [mant |-> r.mant,
              exp |-> IF r.mant < 1024 /\ r.exp = 1 THEN 0 ELSE r.exp,
              bits_lost |-> bits_lost]

\* Step 6: renormalisation of a nonzero sum.
Renormalize(final_mant, final_exp, bits_lost) ==
    IF final_mant >= 2048
    THEN [mant |-> final_mant \div 2, exp |-> final_exp + 1,
          bits_lost |-> IF final_mant % 2 = 1 THEN 1 ELSE bits_lost]
    ELSE LET r == RenormLoop(final_mant, final_exp)
         IN  [mant |-> r.mant,
              exp |-> IF r.mant < 1024 /\ r.exp = 1 THEN 0 ELSE r.exp,
              bits_lost |-> bits_lost]

\* Faulty variant: the overflow flag is raised but the pattern is packed
\* without saturating to infinity.
PackAdd_Mut(sign_big, final_exp, final_mant, bits_lost) ==
    LET res == (sign_big * 32768 + (final_exp % 32) * 1024
                + (final_mant % 1024)) % 65536
    IN  [res |-> res,
         overflow |-> final_exp >= 31,
         zero |-> (res % 32768) = 0,
         nan |-> FALSE,
         precision_lost |-> bits_lost # 0]

\* Steps 7-8: flags and packing of a nonzero sum.
PackAdd(sign_big, final_exp, final_mant, bits_lost) ==
    LET res == IF final_exp >= 31
               THEN sign_big * 32768 + 31744
               ELSE sign_big * 32768 + final_exp * 1024 + (final_mant % 1024)
    IN  [res |-> res,
         overflow |-> final_exp >= 31,
         zero |-> (res % 32768) = 0,
         nan |-> FALSE,
         precision_lost |-> bits_lost # 0]

\* Faulty variant: the zero takes the sign of the bigger operand.
ZeroAdd_Mut(sign_big, sign_sml, bits_lost) ==
    [res |-> sign_big * 32768,
     overflow |-> FALSE,
     zero |-> TRUE,
     nan |-> FALSE,
     precision_lost |-> bits_lost # 0]

\* The zero-result exit (final_mant == 0).
ZeroAdd(sign_big, sign_sml, bits_lost) ==
    [res |-> IF sign_big = sign_sml /\ sign_big = 1 THEN 32768 ELSE 0,
     overflow |-> FALSE,
     zero |-> TRUE,
     nan |-> FALSE,
     precision_lost |-> bits_lost # 0]

\* Line 92: the operands for which the adder returns the canonical NaN.
AddNaNCase(n1, n2) ==
    LET n1_is_inf == ExpOf(n1) = 31 /\ FracOf(n1) = 0
        n2_is_inf == ExpOf(n2) = 31 /\ FracOf(n2) = 0
        n1_is_nan == ExpOf(n1) = 31 /\ FracOf(n1) # 0
        n2_is_nan == ExpOf(n2) = 31 /\ FracOf(n2) # 0
    IN  n1_is_nan \/ n2_is_nan
        \/ (n1_is_inf /\ n2_is_inf /\ SignOf(n1) # SignOf(n2))

\* Faulty variant: always the first operand.
AddInfResult_Mut(n1, n2) == n1

\* Lines 102-103: if (n1_is_inf) ret.res = n1; else ret.res = n2;
AddInfResult(n1, n2) ==
    IF ExpOf(n1) = 31 /\ FracOf(n1) = 0 THEN n1 ELSE n2

\* Faulty variant: the sign is not swapped with the operands.
SignBig_Mut(swap, s1, s2) == s1

\* Line 127: uint16_t sign_big = swap ? s2 : s1;
SignBig(swap, s1, s2) == IF swap THEN s2 ELSE s1

fp16_add_model(n1, n2) ==
    LET s1 == SignOf(n1)
        e1 == ExpOf(n1)
        f1 == FracOf(n1)
        s2 == SignOf(n2)
        e2 == ExpOf(n2)
        f2 == FracOf(n2)
        n1_is_inf == e1 = 31 /\ f1 = 0
        n2_is_inf == e2 = 31 /\ f2 = 0
        exp1 == IF e1 = 0 THEN 1 ELSE e1
        exp2 == IF e2 = 0 THEN 1 ELSE e2
        mant1 == IF e1 = 0 THEN f1 ELSE f1 + 1024
        mant2 == IF e2 = 0 THEN f2 ELSE f2 + 1024
        swap == exp1 < exp2 \/ (exp1 = exp2 /\ mant1 < mant2)
        sign_big == SignBig(swap, s1, s2)
        exp_big == IF swap THEN exp2 ELSE exp1
        mant_big == IF swap THEN mant2 ELSE mant1
        sign_sml == IF swap THEN s1 ELSE s2
        exp_sml == IF swap THEN exp1 ELSE exp2
        mant_sml == IF swap THEN mant1 ELSE mant2
        exp_diff == exp_big - exp_sml
        al == AlignSmall(mant_sml, exp_diff)
        final_mant == AddSub(sign_big, sign_sml, mant_big, al.shifted)
        nrm == Renormalize(final_mant, exp_big, al.bits_lost)
    IN  IF AddNaNCase(n1, n2)
        THEN [res |-> 32767, overflow |-> FALSE, zero |-> FALSE,
              nan |-> TRUE, precision_lost |-> FALSE]
        ELSE IF n1_is_inf \/ n2_is_inf
        THEN [res |-> AddInfResult(n1, n2), overflow |-> TRUE,
              zero |-> FALSE, nan |-> FALSE, precision_lost |-> FALSE]
        ELSE IF final_mant = 0
        THEN ZeroAdd(sign_big, sign_sml, al.bits_lost)
        ELSE PackAdd(sign_big, nrm.exp, nrm.mant, nrm.bits_lost)

(***************************************************************************)
(* fp16_mul_bittrue: the multiplier kernel.                                *)
(***************************************************************************)
\* Steps 3-5: adjusted exponents, 11-bit mantissas, exponent sum, product.
MulProduct(n1, n2) ==
    LET e1 == ExpOf(n1)
        f1 == FracOf(n1)
        e2 == ExpOf(n2)
        f2 == FracOf(n2)
        exp1 == IF e1 = 0 THEN 1 ELSE e1
        exp2 == IF e2 = 0 THEN 1 ELSE e2
        mant1 == IF e1 = 0 THEN f1 ELSE f1 + 1024
        mant2 == IF e2 = 0 THEN f2 ELSE f2 + 1024
    IN  [mant_mult |-> mant1 * mant2, exp_res |-> exp1 + exp2 - 15]

\* Faulty variant: the shift without the exponent increment.
MulNormalize_Mut(p) ==
    IF (p.mant_mult \div 2097152) % 2 = 1
    THEN [mant_mult |-> p.mant_mult \div 2, exp_res |-> p.exp_res]
    ELSE p

\* Step 6: if (mant_mult & 0x200000) { mant_mult >>= 1; exp_res++; }
MulNormalize(p) ==
    IF (p.mant_mult \div 2097152) % 2 = 1
    THEN [mant_mult |-> p.mant_mult \div 2, exp_res |-> p.exp_res + 1]
    ELSE p

\* Step 7: exponent overflow / underflow handling and packing.
MulPack(s_res, mant_mult, exp_res) ==
    LET shifted == Shr(mant_mult, 1 - exp_res)
        res == IF exp_res >= 31 THEN s_res * 32768 + 31744
               ELSE IF exp_res <= 0
               THEN IF exp_res < -10 THEN s_res * 32768
                    ELSE s_res * 32768 + ((shifted \div 1024) % 1024)
               ELSE s_res * 32768 + exp_res * 1024
                    + ((mant_mult \div 1024) % 1024)
    IN  [res |-> res,
         overflow |-> exp_res >= 31,
         zero |-> \/ (exp_res <= 0 /\ exp_res < -10)
                  \/ (exp_res <= 0 /\ exp_res >= -10 /\ shifted = 0)
                  \/ (res % 32768) = 0,
         nan |-> FALSE,
         underflow |-> exp_res <= 0 /\ exp_res < -10]

\* Faulty variant: Inf * 0 is recognised in one operand order only.
MulNaNCase_Mut(n1, n2) ==
    \/ IsNaN(n1) \/ IsNaN(n2)
    \/ (IsInf(n1) /\ IsZero(n2))

\* Lines 120-126: NaN operand, or Inf * 0 in either order.
MulNaNCase(n1, n2) ==
    LET n1_is_inf == ExpOf(n1) = 31 /\ FracOf(n1) = 0
        n2_is_inf == ExpOf(n2) = 31 /\ FracOf(n2) = 0
        n1_is_nan == ExpOf(n1) = 31 /\ FracOf(n1) # 0
        n2_is_nan == ExpOf(n2) = 31 /\ FracOf(n2) # 0
        n1_is_zero == ExpOf(n1) = 0 /\ FracOf(n1) = 0
        n2_is_zero == ExpOf(n2) = 0 /\ FracOf(n2) = 0
    IN  \/ n1_is_nan \/ n2_is_nan
        \/ (n1_is_inf /\ n2_is_zero) \/ (n2_is_inf /\ n1_is_zero)

\* Faulty variant: the sign of the first operand.
MulSign_Mut(s1, s2) == s1

\* Line 117: uint16_t s_res = s1 ^ s2;
MulSign(s1, s2) == (s1 + s2) % 2

fp16_mul_bittrue(n1, n2) ==
    LET s1 == SignOf(n1)
        e1 == ExpOf(n1)
        f1 == FracOf(n1)
        s2 == SignOf(n2)
        e2 == ExpOf(n2)
        f2 == FracOf(n2)
        n1_is_inf == e1 = 31 /\ f1 = 0
        n2_is_inf == e2 = 31 /\ f2 = 0
        n1_is_zero == e1 = 0 /\ f1 = 0
        n2_is_zero == e2 = 0 /\ f2 = 0
        s_res == MulSign(s1, s2)
        nrm == MulNormalize(MulProduct(n1, n2))
    IN  IF MulNaNCase(n1, n2)
        THEN [res |-> 32767, overflow |-> FALSE, zero |-> FALSE,
              nan |-> TRUE, underflow |-> FALSE]
        ELSE IF n1_is_inf \/ n2_is_inf
        THEN [res |-> s_res * 32768 + 31744, overflow |-> TRUE,
              zero |-> FALSE, nan |-> FALSE, underflow |-> FALSE]
        ELSE IF n1_is_zero \/ n2_is_zero
        THEN [res |-> s_res * 32768, overflow |-> FALSE, zero |-> TRUE,
              nan |-> FALSE, underflow |-> FALSE]
        ELSE MulPack(s_res, nrm.mant_mult, nrm.exp_res)

\* TRUE when the operands pass every special-value exit of fp16_mul_bittrue
\* (lines 120-138) and reach the arithmetic path.
MulArithPath(n1, n2) ==
    /\ ExpOf(n1) # 31 /\ ExpOf(n2) # 31
    /\ ~IsZero(n1) /\ ~IsZero(n2)

(***************************************************************************)
(* The codec.  A binary32 value is [sign, exp, mant]: the fields of        *)
(* FloatBits.i (1 + 8 + 23 bits).                                          *)
(***************************************************************************)
\* Position of the leading 1 of a positive integer.
RECURSIVE Msb(_)
Msb(x) == IF x <= 1 THEN 0 ELSE 1 + Msb(x \div 2)

F32IsNaN(f) == f.exp = 255 /\ f.mant # 0

F32IsInf(f) == f.exp = 255 /\ f.mant = 0

F32IsZero(f) == f.exp = 0 /\ f.mant = 0

\* The NAN macro: the positive quiet NaN 0x7FC00000.
F32NaN == [sign |-> 0, exp |-> 255, mant |-> 4194304]

\* (float)frac for an integer 1..1023, then ldexp(., -24): exact.
\* frac = 2^k + r is 1.r * 2^k, so the binary32 fields are
\* exp = 127 + k - 24 and mant = r << (23 - k).
fp16_to_float(h) ==
    LET sign == SignOf(h)
        exp == ExpOf(h)
        frac == FracOf(h)
        k == Msb(frac)
    IN  IF exp = 0
        THEN IF frac = 0
             THEN [sign |-> sign, exp |-> 0, mant |-> 0]
             ELSE [sign |-> sign, exp |-> 127 + k - 24,
                   mant |-> Shl(frac - Pow2(k), 23 - k)]
        ELSE IF exp = 31
        THEN IF frac = 0
             THEN [sign |-> sign, exp |-> 255, mant |-> 0]
             ELSE F32NaN
        ELSE [sign |-> sign, exp |-> exp - 15 + 127, mant |-> frac * 8192]

\* Faulty variant: the normal case keeps 9 fraction bits (shift by 14).
float_to_fp16_Mut(f) ==
    LET sign == f.sign
        exp == f.exp - 127
        mant == f.mant
        new_exp == exp + 15
        den == Shr(mant + 8388608, 1 - new_exp)
    IN  IF F32IsNaN(f) THEN 32767
        ELSE IF F32IsInf(f) THEN sign * 32768 + 31744
        ELSE IF F32IsZero(f) THEN sign * 32768
        ELSE IF new_exp <= 0
        THEN IF new_exp < -10 THEN sign * 32768
             ELSE (sign * 32768 + (den \div 8192)) % 65536
        ELSE IF new_exp >= 31 THEN sign * 32768 + 31744
        ELSE (sign * 32768 + new_exp * 1024 + (mant \div 16384)) % 65536

\* FloatBits is written through .f and read through .i; the compilers the
\* program is built with define this as a copy of the value's bits, so the
\* fields read are those of f.  The returned uint32 expression is narrowed
\* to fp16_t (16 bits).
float_to_fp16(f) ==
    LET sign == f.sign
        exp == f.exp - 127
        mant == f.mant
        new_exp == exp + 15
        den == Shr(mant + 8388608, 1 - new_exp)
    IN  IF F32IsNaN(f) THEN 32767
        ELSE IF F32IsInf(f) THEN sign * 32768 + 31744
        ELSE IF F32IsZero(f) THEN sign * 32768
        ELSE IF new_exp <= 0
        THEN IF new_exp < -10 THEN sign * 32768
             ELSE (sign * 32768 + (den \div 8192)) % 65536
        ELSE IF new_exp >= 31 THEN sign * 32768 + 31744
        ELSE (sign * 32768 + new_exp * 1024 + (mant \div 8192)) % 65536

(***************************************************************************)
(* Native binary32 arithmetic used by the oracle path (round to nearest    *)
(* even, the default mode).  Decoded binary16 values have binary32         *)
(* exponent fields 103..142, so products and sums of two of them never     *)
(* reach the binary32 subnormal range; that range is not modelled.         *)
(***************************************************************************)
\* Round a significand carrying 3 extra low bits (guard, round, sticky) to
\* 24 bits, ties to even; a carry out of bit 23 bumps the exponent.
RoundRNE(sign, exp, sig27) ==
    LET q == sig27 \div 8
        r == sig27 % 8
        up == r > 4 \/ (r = 4 /\ q % 2 = 1)
        q1 == IF up THEN q + 1 ELSE q
        e1 == IF q1 = 16777216 THEN exp + 1 ELSE exp
        m1 == IF q1 = 16777216 THEN 0 ELSE q1 - 8388608
    IN  IF e1 >= 255 THEN [sign |-> sign, exp |-> 255, mant |-> 0]
        ELSE [sign |-> sign, exp |-> e1, mant |-> m1]

\* x shifted right by n, the bits shifted out OR-ed into bit 0 (sticky).
ShrSticky(x, n) ==
    IF n >= 31 THEN (IF x # 0 THEN 1 ELSE 0)
    ELSE LET q == Shr(x, n)
         IN  IF x % Pow2(n) # 0 /\ q % 2 = 0 THEN q + 1 ELSE q

\* fa * fb
FloatMul(x, y) ==
    LET sign == (x.sign + y.sign) % 2
        sx == x.mant + 8388608
        sy == y.mant + 8388608
        xh == sx \div 4096
        xl == sx % 4096
        yh == sy \div 4096
        yl == sy % 4096
        cross == xh * yl + xl * yh
        low == (cross % 4096) * 4096 + xl * yl
        phi == xh * yh + (cross \div 4096) + (low \div 16777216)
        plo == low % 16777216
        \* the 48-bit product is phi * 2^24 + plo, in [2^46, 2^48)
        big == phi >= 8388608
        exp == x.exp + y.exp - 127 + (IF big THEN 1 ELSE 0)
        sig27 == IF big
                 THEN phi * 8 + ShrSticky(plo, 21)
                 ELSE (phi * 2 + (plo \div 8388608)) * 8
                      + ShrSticky(plo % 8388608, 20)
    IN  IF F32IsNaN(x) \/ F32IsNaN(y) THEN F32NaN
        ELSE IF (F32IsInf(x) /\ F32IsZero(y)) \/ (F32IsZero(x) /\ F32IsInf(y))
        THEN F32NaN
        ELSE IF F32IsInf(x) \/ F32IsInf(y)
        THEN [sign |-> sign, exp |-> 255, mant |-> 0]
        ELSE IF F32IsZero(x) \/ F32IsZero(y)
        THEN [sign |-> sign, exp |-> 0, mant |-> 0]
        ELSE RoundRNE(sign, exp, sig27)

\* Left-normalise a nonzero 27-bit difference so that bit 26 is set.
RECURSIVE NormLeft(_, _)
NormLeft(sig, exp) ==
    IF sig < 67108864 THEN NormLeft(sig * 2, exp - 1)
    ELSE [sig |-> sig, exp |-> exp]

\* fa + fb
FloatAdd(x, y) ==
    LET swap == x.exp < y.exp \/ (x.exp = y.exp /\ x.mant < y.mant)
        b == IF swap THEN y ELSE x
        s == IF swap THEN x ELSE y
        sb == (b.mant + 8388608) * 8
        ss == ShrSticky((s.mant + 8388608) * 8, b.exp - s.exp)
        sum == sb + ss
        dif == sb - ss
        nl == NormLeft(dif, b.exp)
    IN  IF F32IsNaN(x) \/ F32IsNaN(y) THEN F32NaN
        ELSE IF F32IsInf(x) /\ F32IsInf(y) /\ x.sign # y.sign THEN F32NaN
        ELSE IF F32IsInf(x) THEN x
        ELSE IF F32IsInf(y) THEN y
        ELSE IF F32IsZero(x) /\ F32IsZero(y)
        THEN [sign |-> IF x.sign = 1 /\ y.sign = 1 THEN 1 ELSE 0,
              exp |-> 0, mant |-> 0]
        ELSE IF F32IsZero(x) THEN y
        ELSE IF F32IsZero(y) THEN x
        ELSE IF b.sign = s.sign
        THEN IF sum >= 134217728
             THEN RoundRNE(b.sign, b.exp + 1, ShrSticky(sum, 1))
             ELSE RoundRNE(b.sign, b.exp, sum)
        ELSE IF dif = 0 THEN [sign |-> 0, exp |-> 0, mant |-> 0]
        ELSE RoundRNE(b.sign, nl.exp, nl.sig)

(***************************************************************************)
(* The programs.  Each main() walks a list of operand pairs and applies    *)
(* the kernel to each pair; the calls are independent (no state is kept    *)
(* between them), so one behaviour of the model is one test case:          *)
(*   pc = "start"  the pair (a, b) is chosen, nothing has run              *)
(*   pc = "add"    the adder main has run fp16_add_model on it             *)
(*   pc = "tlm"    the adder's oracle has been computed for it             *)
(*   pc = "mul"    the multiplier main has run its loop body on it         *)
(*   pc = "codec"  a has been decoded and encoded back                     *)
(*   pc = "swap"   both kernels have run on (a, b) and on (b, a)           *)
(***************************************************************************)
VARIABLES a, b, pc, hw_add, hw_mul, mant_norm, tlm_res, match, back,
          sw_add, sw_mul

vars == <<a, b, pc, hw_add, hw_mul, mant_norm, tlm_res, match, back,
          sw_add, sw_mul>>

NoAdd == [res |-> 0, overflow |-> FALSE, zero |-> FALSE, nan |-> FALSE,
          precision_lost |-> FALSE]

NoMul == [res |-> 0, overflow |-> FALSE, zero |-> FALSE, nan |-> FALSE,
          underflow |-> FALSE]

NoNorm == [mant_mult |-> 0, exp_res |-> 0]

Init ==
    /\ a \in Operands
    /\ b \in Operands
    /\ pc = "start"
    /\ hw_add = NoAdd
    /\ hw_mul = NoMul
    /\ mant_norm = NoNorm
    /\ tlm_res = 0
    /\ match = FALSE
    /\ back = 0
    /\ sw_add = NoAdd
    /\ sw_mul = NoMul

\* Adder main, loop body: FP16Result hw = fp16_add_model(t.a, t.b).
AddMain ==
    /\ pc = "start"
    /\ hw_add' = fp16_add_model(a, b)
    /\ pc' = "add"
    /\ UNCHANGED <<a, b, hw_mul, mant_norm, tlm_res, match, back, sw_add, sw_mul>>

\* The oracle of the adder: decode, native binary32 addition, encode.
AddOracle ==
    /\ pc = "add"
    /\ tlm_res' = float_to_fp16(FloatAdd(fp16_to_float(a), fp16_to_float(b)))
    /\ pc' = "tlm"
    /\ UNCHANGED <<a, b, hw_add, hw_mul, mant_norm, match, back, sw_add,
                   sw_mul>>

\* Multiplier main, loop body: the kernel, the oracle and the comparison.
\* mant_norm records the kernel's locals mant_mult / exp_res after step 6
\* when the arithmetic path is taken.
MulMain ==
    /\ pc = "start"
    /\ LET hw == fp16_mul_bittrue(a, b)
           fmult == FloatMul(fp16_to_float(a), fp16_to_float(b))
           tlm == float_to_fp16(fmult)
       IN  /\ hw_mul' = hw
           /\ tlm_res' = tlm
           /\ match' = ((hw.res = tlm) \/ (F32IsNaN(fmult) /\ hw.nan))
    /\ mant_norm' = IF MulArithPath(a, b)
                    THEN MulNormalize(MulProduct(a, b))
                    ELSE NoNorm
    /\ pc' = "mul"
    /\ UNCHANGED <<a, b, hw_add, back, sw_add, sw_mul>>

\* encode(decode(a))
RoundTrip ==
    /\ pc = "start"
    /\ back' = float_to_fp16(fp16_to_float(a))
    /\ pc' = "codec"
    /\ UNCHANGED <<a, b, hw_add, hw_mul, mant_norm, tlm_res, match, sw_add,
                   sw_mul>>

\* Both kernels applied to the pair in the order given and in the other
\* order: hw_* holds kernel(a, b), sw_* holds kernel(b, a).
BothOrders ==
    /\ pc = "start"
    /\ hw_add' = fp16_add_model(a, b)
    /\ sw_add' = fp16_add_model(b, a)
    /\ hw_mul' = fp16_mul_bittrue(a, b)
    /\ sw_mul' = fp16_mul_bittrue(b, a)
    /\ pc' = "swap"
    /\ UNCHANGED <<a, b, mant_norm, tlm_res, match, back>>

Next == AddMain \/ AddOracle \/ MulMain \/ RoundTrip \/ BothOrders

Spec == Init /\ [][Next]_vars

(***************************************************************************)
(* Properties.                                                             *)
(***************************************************************************)
AddDone == pc \in {"add", "tlm"}

MulDone == pc = "mul"

NaNAdd == [res |-> 32767, overflow |-> FALSE, zero |-> FALSE, nan |-> TRUE,
           precision_lost |-> FALSE]

NaNMul == [res |-> 32767, overflow |-> FALSE, zero |-> FALSE, nan |-> TRUE,
           underflow |-> FALSE]

\* The indeterminate forms.
InfMinusInf == IsInf(a) /\ IsInf(b) /\ SignOf(a) # SignOf(b)

InfTimesZero == (IsInf(a) /\ IsZero(b)) \/ (IsZero(a) /\ IsInf(b))

\* Both operands are zero, subnormal or normal.
NonSpecial == ExpOf(a) # 31 /\ ExpOf(b) # 31

\* C1: a NaN operand, Inf + (-Inf) for the adder and Inf * 0 for the
\* multiplier give result 0x7FFF with nan set and every other flag clear;
\* every other operand pair gives nan clear and a result that is not a NaN
\* pattern.
C1_NaNPropagation ==
    /\ AddDone =>
          IF IsNaN(a) \/ IsNaN(b) \/ InfMinusInf
          THEN hw_add = NaNAdd
          ELSE ~hw_add.nan /\ ~IsNaN(hw_add.res)
    /\ MulDone =>
          IF IsNaN(a) \/ IsNaN(b) \/ InfTimesZero
          THEN hw_mul = NaNMul
          ELSE ~hw_mul.nan /\ ~IsNaN(hw_mul.res)

C1_Witness ==
    /\ MulDone /\ IsZero(a) /\ IsInf(b) /\ SignOf(a) # SignOf(b)
    /\ hw_mul = NaNMul

\* C2: in both kernels' records nan implies result 0x7FFF, overflow implies
\* a signed infinity, zero implies a signed zero; so no two of nan, overflow
\* and zero are set together.
C2_FlagsMatchPattern ==
    /\ AddDone =>
          /\ hw_add.nan => hw_add.res = 32767
          /\ hw_add.overflow => hw_add.res % 32768 = 31744
          /\ hw_add.zero => hw_add.res % 32768 = 0
          /\ ~(hw_add.nan /\ hw_add.overflow)
          /\ ~(hw_add.nan /\ hw_add.zero)
          /\ ~(hw_add.overflow /\ hw_add.zero)
    /\ MulDone =>
          /\ hw_mul.nan => hw_mul.res = 32767
          /\ hw_mul.overflow => hw_mul.res % 32768 = 31744
          /\ hw_mul.zero => hw_mul.res % 32768 = 0
          /\ ~(hw_mul.nan /\ hw_mul.overflow)
          /\ ~(hw_mul.nan /\ hw_mul.zero)
          /\ ~(hw_mul.overflow /\ hw_mul.zero)

\* Two finite operands whose sum saturates with a carry into exponent 31.
C2_Witness ==
    /\ pc = "add" /\ NonSpecial /\ FracOf(a) # 0 /\ FracOf(b) # 0
    /\ hw_add.overflow /\ hw_add.res % 32768 = 31744

\* C3 as stated: encode(decode(p)) = p for every normal, zero, infinity and
\* NaN pattern p.
C3_RoundTripAllClasses ==
    (pc = "codec" /\ ~(ExpOf(a) = 0 /\ FracOf(a) # 0)) => back = a

\* C3 amended: encode(decode(p)) = p for every normal, zero and infinity
\* pattern and for the canonical NaN 0x7FFF; every other NaN pattern comes
\* back as 0x7FFF.
C3_RoundTrip ==
    (pc = "codec" /\ ~(ExpOf(a) = 0 /\ FracOf(a) # 0)) =>
        IF IsNaN(a) THEN back = 32767 ELSE back = a

C3_Witness ==
    pc = "codec" /\ ExpOf(a) = 30 /\ FracOf(a) = 1023 /\ back = a

\* C4: for every operand pair the harness finds the multiplier's result
\* equal to the oracle pattern (or both NaN).
C4_MulMatchesOracle == MulDone => match

\* C5: for non-special operands the flags of each kernel agree with the
\* class of the oracle pattern: overflow iff signed infinity, zero iff
\* signed zero, nan iff 0x7FFF.
C5_FlagsAgreeWithOracle ==
    /\ (pc = "tlm" /\ NonSpecial) =>
          /\ hw_add.overflow <=> (tlm_res % 32768 = 31744)
          /\ hw_add.zero <=> (tlm_res % 32768 = 0)
          /\ hw_add.nan <=> (tlm_res = 32767)
    /\ (MulDone /\ NonSpecial) =>
          /\ hw_mul.overflow <=> (tlm_res % 32768 = 31744)
          /\ hw_mul.zero <=> (tlm_res % 32768 = 0)
          /\ hw_mul.nan <=> (tlm_res = 32767)

\* The product overflows although neither operand is infinite.
C5_Witness ==
    /\ MulDone /\ NonSpecial /\ FracOf(a) # 0
    /\ hw_mul.overflow /\ tlm_res % 32768 = 31744

\* C6: with no NaN operand, an infinite operand and not Inf + (-Inf), the
\* adder returns the infinite operand's pattern (the first one's when both
\* are infinite) with overflow set and the other flags clear.
C6_InfPropagation ==
    (AddDone /\ ~IsNaN(a) /\ ~IsNaN(b) /\ (IsInf(a) \/ IsInf(b))
       /\ ~InfMinusInf) =>
        hw_add = [res |-> IF IsInf(a) THEN a ELSE b, overflow |-> TRUE,
                  zero |-> FALSE, nan |-> FALSE, precision_lost |-> FALSE]

C6_Witness ==
    /\ pc = "add" /\ ExpOf(a) = 30 /\ SignOf(a) = 0 /\ b = 64512
    /\ hw_add.res = 64512 /\ hw_add.overflow

\* C7: finite operands of equal magnitude and opposite sign add to 0x0000
\* with zero set and the other flags clear; and the adder returns 0x8000
\* only when both operands are negative.
C7_ZeroSign ==
    /\ (AddDone /\ NonSpecial /\ a % 32768 = b % 32768
          /\ SignOf(a) # SignOf(b)) =>
          hw_add = [res |-> 0, overflow |-> FALSE, zero |-> TRUE,
                    nan |-> FALSE, precision_lost |-> FALSE]
    /\ (AddDone /\ hw_add.res = 32768) => (SignOf(a) = 1 /\ SignOf(b) = 1)

C7_Witness ==
    /\ pc = "add" /\ a = 48128 /\ b = 15360
    /\ hw_add.res = 0 /\ hw_add.zero

\* C8: when the multiplier does not return NaN, bit 15 of the result is the
\* XOR of the operand signs; a zero operand gives the signed zero with zero
\* set, an infinite operand gives the signed infinity with overflow set.
C8_MulSign ==
    (MulDone /\ ~hw_mul.nan) =>
        LET sx == (SignOf(a) + SignOf(b)) % 2
        IN  /\ SignOf(hw_mul.res) = sx
            /\ (IsZero(a) \/ IsZero(b)) =>
                  (hw_mul.res = sx * 32768 /\ hw_mul.zero)
            /\ (IsInf(a) \/ IsInf(b)) =>
                  (hw_mul.res = sx * 32768 + 31744 /\ hw_mul.overflow)

C8_Witness ==
    MulDone /\ a = 32768 /\ b = 16384 /\ hw_mul.res = 32768 /\ hw_mul.zero

(***************************************************************************)
(* The exact sum of two finite binary16 values, truncated toward zero.     *)
(* A finite pattern h is (+/-) Sig(h) * 2^(AdjExp(h) - 25).  The magnitude *)
(* of the sum is kept as an integer M and a flag tail, meaning a real in   *)
(* [M, M+1) * 2^(e - 25) that is above M iff tail.  When the exponents are *)
(* 13 or more apart the smaller operand is below a quarter of the bigger   *)
(* one's last place, so two extra places and the tail flag hold it.        *)
(***************************************************************************)
AdjExp(h) == IF ExpOf(h) = 0 THEN 1 ELSE ExpOf(h)

Sig(h) == IF ExpOf(h) = 0 THEN FracOf(h) ELSE FracOf(h) + 1024

SumSwap(x, y) ==
    AdjExp(x) < AdjExp(y) \/ (AdjExp(x) = AdjExp(y) /\ Sig(x) < Sig(y))

ExactSum(x, y) ==
    LET big == IF SumSwap(x, y) THEN y ELSE x
        sml == IF SumSwap(x, y) THEN x ELSE y
        d == AdjExp(big) - AdjExp(sml)
        same == SignOf(big) = SignOf(sml)
    IN  IF d <= 12
        THEN [sign |-> SignOf(big),
              M |-> IF same THEN Sig(big) * Pow2(d) + Sig(sml)
                    ELSE Sig(big) * Pow2(d) - Sig(sml),
              e |-> AdjExp(sml),
              tail |-> FALSE]
        ELSE [sign |-> SignOf(big),
              M |-> IF same \/ Sig(sml) = 0 THEN 4 * Sig(big)
                    ELSE 4 * Sig(big) - 1,
              e |-> AdjExp(big) - 2,
              tail |-> Sig(sml) # 0]

\* The largest binary16 magnitude not above the real held by (M, e, tail):
\* its pattern without the sign bit, whether it is below the real, and
\* whether the real is at or above 2^16.
RECURSIVE TruncTo16(_, _, _)
TruncTo16(M, e, inexact) ==
    IF M >= 2048 THEN TruncTo16(M \div 2, e + 1, inexact \/ M % 2 = 1)
    ELSE IF M < 1024 /\ e > 1 THEN TruncTo16(M * 2, e - 1, inexact)
    ELSE [mag |-> IF M < 1024 THEN M ELSE e * 1024 + (M - 1024),
          inexact |-> inexact,
          toobig |-> M >= 1024 /\ e >= 31]

TruncSum(x, y) ==
    LET es == ExactSum(x, y)
        t == TruncTo16(es.M, es.e, es.tail)
    IN  [sign |-> es.sign, zero |-> es.M = 0 /\ ~es.tail,
         mag |-> t.mag, inexact |-> t.inexact, toobig |-> t.toobig]

\* The adder's result is the truncated exact sum, with the sum's sign.
IsTruncatedSum ==
    LET t == TruncSum(a, b)
    IN  /\ hw_add.res % 32768 = t.mag
        /\ ~t.zero => SignOf(hw_add.res) = t.sign

\* precision_lost is clear whenever the result equals the exact sum.
ExactMeansNoLoss ==
    LET t == TruncSum(a, b)
    IN  (hw_add.res % 32768 = t.mag /\ ~t.inexact) => ~hw_add.precision_lost

\* C9 as stated: for finite operands and overflow clear, the adder's result
\* is the exact sum truncated toward zero, for equal and for opposite signs,
\* and precision_lost is clear whenever the result is exact.
C9_TruncatesExactSum ==
    (AddDone /\ NonSpecial /\ ~hw_add.overflow) =>
        (IsTruncatedSum /\ ExactMeansNoLoss)

\* C9 amended: for finite operands and overflow clear, the result is the
\* exact sum truncated toward zero when the signs are equal or when
\* precision_lost is clear; when the signs differ and precision_lost is set
\* the result's magnitude is above the truncated sum's and has the bigger
\* operand's sign; precision_lost is clear whenever the result is exact.
C9_TruncatesUnlessLossySub ==
    (AddDone /\ NonSpecial /\ ~hw_add.overflow) =>
        /\ IF SignOf(a) = SignOf(b) \/ ~hw_add.precision_lost
           THEN IsTruncatedSum
           ELSE /\ hw_add.res % 32768 > TruncSum(a, b).mag
                /\ SignOf(hw_add.res) = TruncSum(a, b).sign
        /\ ExactMeansNoLoss

\* Same signs, a carry out of the mantissa and bits dropped.
C9_Witness ==
    /\ pc = "add" /\ NonSpecial /\ SignOf(a) = SignOf(b)
    /\ ExpOf(a) = ExpOf(b) /\ ExpOf(a) > 0
    /\ ~hw_add.overflow /\ hw_add.precision_lost
    /\ IsTruncatedSum

\* C10: on the arithmetic path of the multiplier the normalised product
\* has bit 20 set and bit 21 clear.
C10_LeadingBitAt20 ==
    (MulDone /\ MulArithPath(a, b)) =>
        /\ (mant_norm.mant_mult \div 1048576) % 2 = 1
        /\ (mant_norm.mant_mult \div 2097152) % 2 = 0

\* C11: fp16_add_model(a, b) and fp16_add_model(b, a) return the same
\* record (result and all four flags), and so do fp16_mul_bittrue(a, b) and
\* fp16_mul_bittrue(b, a), for every operand pair.
C11_Commutative ==
    pc = "swap" => (hw_add = sw_add /\ hw_mul = sw_mul)

\* Finite nonzero operands of equal magnitude and opposite sign: neither
\* order swaps big and small, so sign_big differs between the two calls.
C11_Witness ==
    /\ pc = "swap" /\ NonSpecial /\ ~IsZero(a)
    /\ a % 32768 = b % 32768 /\ SignOf(a) # SignOf(b)
    /\ hw_add = sw_add /\ hw_add.zero
    /\ hw_mul = sw_mul /\ SignOf(hw_mul.res) = 1

====
